---- MODULE Spec2Model ----
(***************************************************************************)
(* Model of the Deck component (src/src/Deck.js): a stack of cards of      *)
(* which the top one can be dragged; a release beyond the threshold        *)
(* animates it out and advances `index`, any other release springs it      *)
(* back.                                                                   *)
(*                                                                         *)
(* The component runs on the host framework's event loop.  What the model  *)
(* takes from the framework is its documented contract:                    *)
(*   - Animated.Value.setValue stops the animation running on the value    *)
(*     and then writes the value;                                          *)
(*   - starting an animation on a value stops the one running on it;       *)
(*   - the callback given to start() is called once, when the animation    *)
(*     ends, whether it ran to its end or was stopped (Deck.js:100 does    *)
(*     not look at the `finished` flag it is called with);                 *)
(*   - gesture handlers are called on the view that carries them: the top  *)
(*     card (Deck.js:170), so a gesture lives as long as that card does.   *)
(***************************************************************************)
EXTENDS Integers, Sequences, FiniteSets, TLC

\* ---------------------------------------------------------------- bounds
MaxDrag == 2      \* horizontal drag samples range over -MaxDrag..MaxDrag
MaxDY == 1        \* vertical drag samples range over 0..MaxDY
MaxCalls == 2     \* no new touch starts once this many callbacks were made

\* ------------------------------------------------------------- constants
SCREEN_WIDTH == 4
SWIPE_THRESHOLD == SCREEN_WIDTH \div 4

Undefined == "undefined"
NoKey == "none"

\* The item lists the parent may supply; a list's position in DataPool is
\* its identity (two props.data values are === iff they are the same entry).
DataPool == << <<"A", "B", "C">>, <<"D">>, <<>>, <<"A", "B", "C">> >>
DataIds == 1..Len(DataPool)

Origin == [x |-> 0, y |-> 0]
SwipeOut == {"left", "right"}

VARIABLES
    index,      \* this.state.index
    position,   \* this.state.position (Animated.ValueXY), current value
    data,       \* this.props.data (identity of the list)
    anim,       \* animation running on position: none, left, right, spring
    touch,      \* a gesture is in progress on the top card
    gesture,    \* gesture.dx, gesture.dy: displacement since touch start
    calls,      \* history: the onSwipeLeft/onSwipeRight invocations
    swipes,     \* history: the directions forceSwipe was called with
    swiped,     \* history: the item on top when the running swipe-out began
    replaced,   \* history: the list identity has changed since construction
    event,      \* history: the handler that ran last
    before      \* history: index as it was when that handler began

vars == <<index, position, data, anim, touch, gesture, calls, swipes, swiped, replaced, event, before>>

Items == DataPool[data]

\* data[i] of JavaScript, 0-based; out of range reads give undefined
ItemAt(list, i) == IF i >= 0 /\ i < Len(list) THEN list[i + 1] ELSE Undefined

\* key of the card that carries the gesture handlers, if one is rendered
TopKey(list, i) == IF i >= Len(list) THEN NoKey ELSE ItemAt(list, i)

Point(px, py) == [x |-> px, y |-> py]

\* the gestureState the responder hands to the handlers
Gesture(gx, gy) == [dx |-> gx, dy |-> gy]

\* -------------------------------------------------------------- rendering
Rotate_ScreenRange(px) == (px * 120) \div SCREEN_WIDTH

\* position.x.interpolate: linear through (-1.5W,-120), (0,0), (1.5W,120)
Rotate(px) == (px * 240) \div (3 * SCREEN_WIDTH)

getCardStyle == [left |-> position.x, top |-> position.y, rotate |-> Rotate(position.x)]

\* style of a card below the top one: styles.cardStyle and its stacking offset
StaticStyle(depth) == [left |-> 0, top |-> 10 * depth, rotate |-> 0]

RenderCard_AllBound(list, i, dataIndex) ==
    IF dataIndex < i THEN [kind |-> "null"]
    ELSE [kind |-> "card", key |-> ItemAt(list, dataIndex), panHandlers |-> TRUE,
          animated |-> TRUE, top |-> 10 * (dataIndex - i), style |-> getCardStyle]

RenderCard(list, i, dataIndex) ==
    IF dataIndex < i THEN [kind |-> "null"]
    ELSE IF dataIndex = i
         THEN [kind |-> "card", key |-> ItemAt(list, dataIndex), panHandlers |-> TRUE,
               animated |-> TRUE, top |-> 0, style |-> getCardStyle]
         ELSE [kind |-> "card", key |-> ItemAt(list, dataIndex), panHandlers |-> FALSE,
               animated |-> FALSE, top |-> 10 * (dataIndex - i),
               style |-> StaticStyle(dataIndex - i)]

Reverse(s) == [k \in 1..Len(s) |-> s[Len(s) + 1 - k]]

renderCards_Strict ==
    IF index > Len(Items)
    THEN << [kind |-> "noMoreCards"] >>
    ELSE Reverse([k \in 1..Len(Items) |-> RenderCard(Items, index, k - 1)])

renderCards ==
    IF index >= Len(Items)
    THEN << [kind |-> "noMoreCards"] >>
    ELSE Reverse([k \in 1..Len(Items) |-> RenderCard(Items, index, k - 1)])

\* ------------------------------------------------------------- operations
Init ==
    /\ index = 0
    /\ position = Origin
    /\ data \in DataIds
    /\ anim = "none"
    /\ touch = FALSE
    /\ gesture = Gesture(0, 0)
    /\ calls = << >>
    /\ swipes = << >>
    /\ swiped = NoKey
    /\ replaced = FALSE
    /\ event = "init"
    /\ before = 0

\* the card that holds the gesture is still the top card after the step
KeepsTouch == touch' = (touch /\ TopKey(DataPool[data'], index') = TopKey(Items, index))

ReleaseChoice_Inclusive(dx) ==
    IF dx >= SWIPE_THRESHOLD THEN "right"
    ELSE IF dx <= -SWIPE_THRESHOLD THEN "left"
    ELSE "spring"

ReleaseChoice(dx) ==
    IF dx > SWIPE_THRESHOLD THEN "right"
    ELSE IF dx < -SWIPE_THRESHOLD THEN "left"
    ELSE "spring"

Callback_Swapped(direction, item) == [dir |-> IF direction = "left" THEN "right" ELSE "left", item |-> item]

Callback(direction, item) == [dir |-> IF direction = "right" THEN "right" ELSE "left", item |-> item]

CompletedIndex_Skip(i) == i + 2

CompletedIndex(i) == i + 1

\* onSwipeComplete, but for its write of position
onSwipeComplete(direction) ==
    /\ calls' = Append(calls, Callback(direction, ItemAt(Items, index)))
    /\ index' = CompletedIndex(index)

StopAnimation_Silent == UNCHANGED <<calls, index>>

\* stopping the running animation calls its start() callback
StopAnimation ==
    IF anim \in SwipeOut THEN onSwipeComplete(anim) ELSE UNCHANGED <<calls, index>>

TouchStart_Unbound ==
    /\ ~touch
    /\ Len(calls) < MaxCalls
    /\ touch' = TRUE
    /\ gesture' = Gesture(0, 0)
    /\ event' = "start"
    /\ before' = index
    /\ UNCHANGED <<index, position, data, anim, calls, swipes, swiped, replaced>>

\* onStartShouldSetPanResponder: the touch lands on the top card
TouchStart ==
    /\ ~touch
    /\ index < Len(Items)
    /\ Len(calls) < MaxCalls
    /\ touch' = TRUE
    /\ gesture' = Gesture(0, 0)
    /\ event' = "start"
    /\ before' = index
    /\ UNCHANGED <<index, position, data, anim, calls, swipes, swiped, replaced>>

MoveValue_Adding(dx, dy) == {Point(position.x + dx, position.y + dy)}

\* the value position.setValue leaves when it stopped a swipe-out: the
\* callback's reset runs between the stop and the write of the y component,
\* before or after the write of the x component
MoveValue(dx, dy) ==
    IF anim \in SwipeOut THEN {Point(0, dy), Point(dx, dy)} ELSE {Point(dx, dy)}

onPanResponderMove(dx, dy) ==
    /\ touch
    /\ gesture' = Gesture(dx, dy)
    /\ StopAnimation
    /\ position' \in MoveValue(dx, dy)
    /\ anim' = "none"
    /\ event' = "move"
    /\ before' = index
    /\ swiped' = NoKey
    /\ UNCHANGED <<data, swipes, replaced>>
    /\ KeepsTouch

\* forceSwipe / resetPosition: start the animation, stopping the running one
StartedPosition == IF anim \in SwipeOut THEN Origin ELSE position

onPanResponderRelease ==
    /\ touch
    /\ StopAnimation
    /\ position' = StartedPosition
    /\ anim' = ReleaseChoice(gesture.dx)
    /\ swipes' = IF anim' \in SwipeOut THEN Append(swipes, anim') ELSE swipes
    /\ swiped' = IF anim' \in SwipeOut THEN ItemAt(Items, index) ELSE NoKey
    /\ touch' = FALSE
    /\ event' = "release"
    /\ before' = index
    /\ UNCHANGED <<data, gesture, replaced>>

Target == IF anim = "right" THEN Point(SCREEN_WIDTH, 0)
          ELSE IF anim = "left" THEN Point(-SCREEN_WIDTH, 0)
          ELSE Origin

Toward(a, t) == IF a <= t THEN a..t ELSE t..a

\* one frame of the running animation
AnimationFrame ==
    /\ anim # "none"
    /\ \E nx \in Toward(position.x, Target.x), ny \in Toward(position.y, Target.y) :
          /\ Point(nx, ny) # position
          /\ position' = Point(nx, ny)
    /\ event' = "frame"
    /\ before' = index
    /\ UNCHANGED <<index, data, anim, touch, gesture, calls, swipes, swiped, replaced>>

SwipeOutEnd_NoReset ==
    /\ anim \in SwipeOut
    /\ onSwipeComplete(anim)
    /\ position' = Target
    /\ anim' = "none"
    /\ event' = "swipeEnd"
    /\ before' = index
    /\ swiped' = NoKey
    /\ UNCHANGED <<data, gesture, swipes, replaced>>
    /\ KeepsTouch

\* the timing animation reaches its end: start()'s callback runs
SwipeOutEnd ==
    /\ anim \in SwipeOut
    /\ onSwipeComplete(anim)
    /\ position' = Origin
    /\ anim' = "none"
    /\ event' = "swipeEnd"
    /\ before' = index
    /\ swiped' = NoKey
    /\ UNCHANGED <<data, gesture, swipes, replaced>>
    /\ KeepsTouch

\* the spring of resetPosition comes to rest; it has no callback
SpringEnd ==
    /\ anim = "spring"
    /\ position' = Origin
    /\ anim' = "none"
    /\ event' = "springEnd"
    /\ before' = index
    /\ UNCHANGED <<index, data, touch, gesture, calls, swipes, swiped, replaced>>

ReceivedIndex_Inverted(nextData) == IF nextData = data THEN 0 ELSE index

ReceivedIndex_Always(nextData) == 0

ReceivedIndex_ByContent(nextData) == IF DataPool[nextData] # Items THEN 0 ELSE index

ReceivedIndex(nextData) == IF nextData # data THEN 0 ELSE index

UNSAFE_componentWillReceiveProps_Reset(nextData) ==
    /\ index' = ReceivedIndex(nextData)
    /\ data' = nextData
    /\ replaced' = (replaced \/ nextData # data)
    /\ position' = IF nextData # data THEN Origin ELSE position
    /\ anim' = IF nextData # data THEN "none" ELSE anim
    /\ event' = "props"
    /\ before' = index
    /\ UNCHANGED <<gesture, calls, swipes, swiped>>
    /\ KeepsTouch

UNSAFE_componentWillReceiveProps(nextData) ==
    /\ index' = ReceivedIndex(nextData)
    /\ data' = nextData
    /\ replaced' = (replaced \/ nextData # data)
    /\ event' = "props"
    /\ before' = index
    /\ UNCHANGED <<position, anim, gesture, calls, swipes, swiped>>
    /\ KeepsTouch

Move == \E dx \in -MaxDrag..MaxDrag, dy \in 0..MaxDY : onPanResponderMove(dx, dy)

ReceiveProps == \E nextData \in DataIds : UNSAFE_componentWillReceiveProps(nextData)

Next ==
    \/ TouchStart
    \/ Move
    \/ onPanResponderRelease
    \/ AnimationFrame
    \/ SwipeOutEnd
    \/ SpringEnd
    \/ ReceiveProps

Spec == Init /\ [][Next]_vars

\* a started animation runs to its end (250 ms timing, spring coming to rest)
\* unless it is stopped first
FairSpec == Spec /\ WF_vars(SwipeOutEnd) /\ WF_vars(SpringEnd)

TypeOK ==
    /\ index \in Nat
    /\ position.x \in -SCREEN_WIDTH..SCREEN_WIDTH
    /\ data \in DataIds
    /\ anim \in SwipeOut \cup {"none", "spring"}
    /\ touch \in BOOLEAN
    /\ replaced \in BOOLEAN

\* ------------------------------------------------------------ properties
Abs(n) == IF n < 0 THEN -n ELSE n

NoMoreCards == << [kind |-> "noMoreCards"] >>

Dirs(log) == [k \in 1..Len(log) |-> log[k].dir]

\* C1: in every reachable state 0 <= currentIndex <= length(data).
C1_IndexWithinList == index >= 0 /\ index <= Len(Items)

\* C2: a release with horizontal displacement d starts the swipe-out to the
\* right iff d > threshold, to the left iff d < -threshold, and otherwise
\* (d = +/-threshold and d = 0 included) starts the snap-back and no
\* swipe-out; the vertical displacement plays no part.
C2_ReleaseThreshold ==
    [][event' = "release" =>
          /\ (gesture.dx > SWIPE_THRESHOLD =>
                anim' = "right" /\ swipes' = Append(swipes, "right"))
          /\ (gesture.dx < -SWIPE_THRESHOLD =>
                anim' = "left" /\ swipes' = Append(swipes, "left"))
          /\ (Abs(gesture.dx) <= SWIPE_THRESHOLD =>
                anim' = "spring" /\ swipes' = swipes)]_vars

C2_Witness ==
    /\ event = "release"
    /\ gesture.dx = SWIPE_THRESHOLD
    /\ gesture.dy # 0
    /\ anim = "spring"

\* C3: every completion of a swipe-out leaves currentIndex one greater than
\* before it and leaves dragPosition at (0,0).
C3_CompletionResets ==
    [][Len(calls') > Len(calls) => index' = index + 1 /\ position' = Origin]_vars

\* C4: while the list is not replaced, the k-th completed swipe reports the
\* k-th item, read before the index is incremented, and leaves the (k+1)-th
\* item on top: the callbacks report the items in list order, each once.
C4_ItemsInOrder ==
    /\ [](~replaced =>
            /\ Len(calls) = index
            /\ index <= Len(Items)
            /\ \A k \in 1..Len(calls) : calls[k].item = Items[k]
            /\ (index < Len(Items) => TopKey(Items, index) = Items[Len(calls) + 1]))
    /\ [][~replaced' /\ Len(calls') > Len(calls) =>
            /\ Len(calls') = Len(calls) + 1
            /\ calls'[Len(calls')].item = ItemAt(Items, index)
            /\ index' = index + 1]_vars

C4_Witness ==
    /\ ~replaced
    /\ Items = <<"A", "B", "C">>
    /\ calls = << [dir |-> "right", item |-> "A"] >>
    /\ index = 1
    /\ renderCards[2].key = "B" /\ renderCards[2].panHandlers
    /\ renderCards[1].key = "C" /\ renderCards[1].top = 10

\* C5: every read of data[currentIndex] is in range: no callback receives
\* an undefined item, and a rendered top card is an item of the list.
C5_ReadsInRange ==
    /\ \A k \in 1..Len(calls) : calls[k].item # Undefined
    /\ \A k \in 1..Len(renderCards) :
          renderCards[k].kind = "card" => renderCards[k].key # Undefined
\* C6: a props update whose list differs in identity from the current one
\* sets currentIndex to 0 whatever it was, the old list's length included.
C6_ReplacementResets ==
    [][event' = "props" /\ data' # data => index' = 0]_vars

C6_Witness ==
    /\ event = "props"
    /\ replaced
    /\ before = 1
    /\ index = 0
    /\ Len(calls) = 1
    /\ calls[1].item = "D"

\* C7: whenever currentIndex equals the number of items, renderCards gives
\* the empty-state view and no card; a deck built on an empty list shows it
\* from its initial state on.
C7_EmptyState ==
    index = Len(Items) =>
        /\ renderCards = NoMoreCards
        /\ \A k \in 1..Len(renderCards) : renderCards[k].kind # "card"

C7_Witness ==
    /\ event = "init"
    /\ Items = << >>
    /\ index = 0
    /\ renderCards = NoMoreCards

C8_WitnessStopping ==
    /\ event = "release"
    /\ gesture.dx = 0
    /\ anim = "spring"
    /\ index = before + 1

\* C9: every release beyond the threshold gets exactly one callback, of its
\* own direction: the callbacks made so far, followed by the swipe-out still
\* running, are the releases beyond the threshold, in order, whatever
\* touches, releases and list replacements happened during the animations.
C9_OneCallbackPerSwipe ==
    swipes = Dirs(calls) \o (IF anim \in SwipeOut THEN <<anim>> ELSE << >>)

C9_Witness ==
    /\ event = "move"
    /\ index = before + 1
    /\ replaced
    /\ Len(calls) = 2
    /\ calls[1].dir # calls[2].dir

C11_ReleaseSettles ==
    (event = "release") ~> ((anim = "none" /\ ~touch /\ position = Origin) \/ touch)

C11_Witness ==
    /\ event = "swipeEnd"
    /\ anim = "none"
    /\ ~touch
    /\ position = Origin
    /\ index = before + 1
Pending == IF anim \in SwipeOut THEN 1 ELSE 0

\* C12 as stated: while a swipe-out or a snap-back is running no touch
\* start, movement sample or release is processed; at most one swipe-out
\* completion is pending and no swipe-out starts before the previous one has
\* completed.
C12_NoDragWhileAnimating ==
    /\ [][anim # "none" => event' \notin {"start", "move", "release"}]_vars
    /\ [](Len(swipes) = Len(calls) + Pending)

\* C12 amended: a touch may start while a swipe-out or a snap-back is
\* running, but its first movement sample or its release stops that
\* animation (running a swipe-out's completion) before it writes, so after a
\* movement sample no animation runs and after a release only the one it
\* started; at most one swipe-out completion is pending, and when a
\* swipe-out starts every earlier one has completed.
C12_OneWriter ==
    /\ [][/\ (event' = "start" => anim' = anim /\ position' = position)
          /\ (event' = "move" => anim' = "none")
          /\ (event' = "release" /\ anim \in SwipeOut =>
                 Len(calls') = Len(calls) + 1 /\ anim' = "spring")
          /\ (Len(swipes') > Len(swipes) =>
                 anim \notin SwipeOut /\ Len(calls') = Len(swipes))]_vars
    /\ [](Len(swipes) = Len(calls) + Pending)

C12_Witness ==
    /\ event = "start"
    /\ touch
    /\ anim \in SwipeOut
    /\ position.x = SCREEN_WIDTH
\* the element renderCards gives for data[dataIndex] (the list is reversed)
Rendered(dataIndex) == renderCards[Len(Items) - dataIndex]

\* C13: in every render with currentIndex < length(data) exactly one card
\* carries the gesture handlers and the position-driven style, the item at
\* currentIndex; items before it render nothing, items after it render
\* without handlers and with a style that does not depend on dragPosition.
C13_OnlyTopCardBound ==
    index < Len(Items) =>
        /\ Len(renderCards) = Len(Items)
        /\ \A d \in 0..(Len(Items) - 1) :
              /\ (d < index => Rendered(d) = [kind |-> "null"])
              /\ (d = index =>
                    /\ Rendered(d).kind = "card"
                    /\ Rendered(d).key = Items[d + 1]
                    /\ Rendered(d).panHandlers
                    /\ Rendered(d).style.left = position.x
                    /\ Rendered(d).style.top = position.y)
              /\ (d > index =>
                    /\ Rendered(d).kind = "card"
                    /\ Rendered(d).key = Items[d + 1]
                    /\ ~Rendered(d).panHandlers
                    /\ Rendered(d).style = [left |-> 0, top |-> 10 * (d - index), rotate |-> 0])
        /\ Cardinality({d \in 0..(Len(Items) - 1) :
                          Rendered(d).kind = "card" /\ Rendered(d).panHandlers}) = 1

C13_Witness ==
    /\ Items = <<"A", "B", "C">>
    /\ index = 1
    /\ touch
    /\ position = [x |-> -2, y |-> 1]
    /\ Rendered(0).kind = "null"
    /\ Rendered(1).style.left = -2
    /\ Rendered(2).style.left = 0
\* the list was never replaced and as many swipes completed as it has items
DeckExhausted == ~replaced /\ Len(calls) = Len(Items)

\* C14: on a list of n items that is never replaced, once n swipes have
\* completed the empty-state view is shown, no card carries the gesture
\* handlers, and from then on no gesture starts, no callback is invoked and
\* currentIndex stays n.
C14_ExhaustedDeckStays ==
    /\ [](DeckExhausted =>
            /\ index = Len(Items)
            /\ renderCards = NoMoreCards
            /\ ~touch
            /\ anim \notin SwipeOut)
    /\ [][DeckExhausted /\ ~replaced' =>
            /\ index' = index
            /\ calls' = calls
            /\ swipes' = swipes
            /\ ~touch'
            /\ event' \notin {"start", "move", "release", "swipeEnd"}]_vars

C14_Witness ==
    /\ DeckExhausted
    /\ Items = <<"D">>
    /\ index = 1
    /\ Len(calls) < MaxCalls
    /\ event = "springEnd"
C16_RotationLinear ==
    /\ getCardStyle.rotate * SCREEN_WIDTH = 80 * position.x
    /\ (position = Origin => getCardStyle.rotate = 0)
    /\ Rotate(-position.x) = -getCardStyle.rotate
    /\ (anim \in SwipeOut /\ position = Target =>
            getCardStyle.rotate = IF anim = "right" THEN 80 ELSE -80)
    /\ Rotate(-((3 * SCREEN_WIDTH) \div 2)) = -120
    /\ Rotate(0) = 0
    /\ Rotate((3 * SCREEN_WIDTH) \div 2) = 120

C16_Witness ==
    /\ anim = "left"
    /\ event = "frame"
    /\ position = [x |-> -SCREEN_WIDTH, y |-> 0]
    /\ getCardStyle.rotate = -80
\* C17: the item passed to onSwipeLeft/onSwipeRight is the card that was on
\* top when the drag was released, also when the list is replaced between
\* the release and the completion of the swipe-out.
C17_CallbackGetsSwipedCard ==
    [][Len(calls') > Len(calls) => calls'[Len(calls')].item = swiped]_vars

\* C18 as stated: replacing the list changes only currentIndex: it leaves
\* dragPosition unchanged, cancels no drag in progress and no running
\* swipe-out or snap-back, so the swipe-out still completes afterwards.
C18_ReplacementOnlyResetsIndex ==
    [][event' = "props" =>
          /\ position' = position
          /\ anim' = anim
          /\ touch' = touch
          /\ gesture' = gesture
          /\ calls' = calls
          /\ swipes' = swipes]_vars

\* C18 amended: replacing the list sets currentIndex to 0 and changes
\* neither dragPosition nor the running swipe-out or snap-back, so a
\* swipe-out released before the replacement still completes afterwards and
\* still increments currentIndex; a drag in progress goes on if the same
\* item is on top after the replacement, and otherwise ends without a
\* release, because its card is no longer the top card.
C18_ReplacementKeepsAnimation ==
    /\ [][event' = "props" =>
            /\ index' = (IF data' # data THEN 0 ELSE index)
            /\ position' = position
            /\ anim' = anim
            /\ gesture' = gesture
            /\ calls' = calls
            /\ swipes' = swipes
            /\ touch' = (touch /\ TopKey(DataPool[data'], index') = TopKey(Items, index))]_vars
    /\ [][event = "props" /\ anim \in SwipeOut /\ event' = "swipeEnd" =>
            index' = index + 1 /\ Len(calls') = Len(calls) + 1]_vars

C18_Witness ==
    /\ event = "props"
    /\ before = 1
    /\ index = 0
    /\ anim \in SwipeOut
    /\ position.x = 3
    /\ ~touch
\* C19: a props update with the identical list object leaves currentIndex
\* unchanged and invokes no callback; currentIndex is reset to 0 if and only
\* if the identity of the list differs, whatever the lists contain.
C19_ResetIffIdentityDiffers ==
    [][event' = "props" =>
          /\ (data' = data => index' = index /\ calls' = calls)
          /\ (data' # data => index' = 0 /\ calls' = calls)]_vars

C19_Witness ==
    /\ event = "props"
    /\ ~replaced
    /\ before = 2
    /\ index = 2
    /\ Len(calls) = 2

C19_WitnessEqualContent ==
    /\ event = "props"
    /\ replaced
    /\ before = 2
    /\ index = 0
    /\ Items = <<"A", "B", "C">>
    /\ calls[Len(calls)].item = "B"

====
